---------------------------- MODULE Spec2Model ----------------------------
(***************************************************************************)
(* Model of core/hooks/notification-hook-codex.py: one run of main() on    *)
(* one hook event read from standard input.  Strings are sequences of      *)
(* characters (one-character strings), so that lower(), substring search,  *)
(* joining and f-string formatting are computed, not assumed.              *)
(***************************************************************************)
EXTENDS Integers, Sequences, FiniteSets, TLC

\* ------------------------------------------------------------------------
\* Bounds of the model
\* ------------------------------------------------------------------------
\* longest generic message, in words of Words
MaxWords == 2
\* longest "changes" sequence of a patch approval
MaxChanges == 4
\* number of invocations of the hook that SpecRerun follows
MaxRuns == 2

\* ------------------------------------------------------------------------
\* Characters and strings
\* ------------------------------------------------------------------------
\* the character U+2022 (bullet) of the git-status separator
Bullet == "U+2022"

UPPER == <<"A", "B", "C", "D", "E", "F", "G", "H", "I", "J", "K", "L", "M", "N", "O", "P", "Q", "R", "S", "T", "U", "V", "W", "X", "Y", "Z">>

LOWER == <<"a", "b", "c", "d", "e", "f", "g", "h", "i", "j", "k", "l", "m", "n", "o", "p", "q", "r", "s", "t", "u", "v", "w", "x", "y", "z">>

DIGITS == <<"0", "1", "2", "3", "4", "5", "6", "7", "8", "9">>

\* the lower-case letter of every upper-case letter
LowerOf == [c \in {UPPER[i] : i \in 1..Len(UPPER)} |->
               LOWER[CHOOSE i \in 1..Len(UPPER) : UPPER[i] = c]]

\* str.lower() on one character
LowerChar(c) == IF c \in DOMAIN LowerOf THEN LowerOf[c] ELSE c

\* str.lower()
Lower(s) == [i \in 1..Len(s) |-> LowerChar(s[i])]

\* the Python test "sub in s" on strings
Contains(sub, s) ==
    \E i \in 0..(Len(s) - Len(sub)) : \A j \in 1..Len(sub) : s[i + j] = sub[j]

\* format of an int inside an f-string
RECURSIVE IntToStr(_)
IntToStr(n) ==
    IF n < 0 THEN <<"-">> \o IntToStr(-n)
    ELSE IF n < 10 THEN <<DIGITS[n + 1]>>
    ELSE IntToStr(n \div 10) \o <<DIGITS[(n % 10) + 1]>>

\* sep.join(parts)
RECURSIVE Join(_, _)
Join(sep, parts) ==
    IF parts = <<>> THEN <<>>
    ELSE IF Len(parts) = 1 THEN parts[1]
    ELSE parts[1] \o sep \o Join(sep, Tail(parts))

\* sequence slice seq[:n]
Prefix(seq, n) == SubSeq(seq, 1, IF Len(seq) < n THEN Len(seq) ELSE n)

\* dict.get(key, default)
Get(d, key, default) == IF key \in DOMAIN d THEN d[key] ELSE default

\* truth value of a string or list: empty is false
Truthy(v) == v # <<>>

\* ------------------------------------------------------------------------
\* Module constants
\* ------------------------------------------------------------------------
HOOK_NAME == <<"n", "o", "t", "i", "f", "i", "c", "a", "t", "i", "o", "n", "-", "h", "o", "o", "k">>

ENABLE_NOTIFICATIONS == TRUE

NOTIFICATION_AUDIO_FILE == <<"t", "o", "a", "s", "t", "y", ".", "m", "p", "3">>

\* imported from the notifications module; fixed for the whole process
PROJECT_TITLE == <<"P", "r", "o", "j">>

PROJECT_TAG == "proj"

TOOL_PERMISSION_REQUEST == <<"t", "o", "o", "l", "-", "p", "e", "r", "m", "i", "s", "s", "i", "o", "n", "-", "r", "e", "q", "u", "e", "s", "t">>

PROMPT_IDLE_TIMEOUT == <<"p", "r", "o", "m", "p", "t", "-", "i", "d", "l", "e", "-", "t", "i", "m", "e", "o", "u", "t">>

\* default of hook_data.get("idle_duration_seconds", 60)
DefaultIdleSeconds == 60

\* size of the preview changes[:3]
PreviewLen == 3

\* ------------------------------------------------------------------------
\* Pure functions of the hook
\* ------------------------------------------------------------------------
\* analyze_message_content with the completed/finished rule tried first
analyze_message_content_CompletedFirst(message, event_name) ==
    LET message_lower == Lower(message) IN
    IF Contains(<<"c", "o", "m", "p", "l", "e", "t", "e", "d">>, message_lower) \/ Contains(<<"f", "i", "n", "i", "s", "h", "e", "d">>, message_lower)
    THEN [priority |-> "default",
          tags |-> <<"white_check_mark", "gear", PROJECT_TAG>>,
          title |-> PROJECT_TITLE \o <<":", " ", "T", "a", "s", "k", " ", "C", "o", "m", "p", "l", "e", "t", "e", "d">>]
    ELSE IF Contains(<<"p", "e", "r", "m", "i", "s", "s", "i", "o", "n">>, message_lower) \/ Contains(<<"a", "p", "p", "r", "o", "v", "a", "l">>, message_lower)
    THEN [priority |-> "high",
          tags |-> <<"warning", "key", PROJECT_TAG>>,
          title |-> PROJECT_TITLE \o <<":", " ", "P", "e", "r", "m", "i", "s", "s", "i", "o", "n", " ", "R", "e", "q", "u", "i", "r", "e", "d">>]
    ELSE IF Contains(<<"e", "r", "r", "o", "r">>, message_lower) \/ Contains(<<"f", "a", "i", "l", "e", "d">>, message_lower)
    THEN [priority |-> "high",
          tags |-> <<"red_circle", "warning", PROJECT_TAG>>,
          title |-> PROJECT_TITLE \o <<":", " ", "E", "r", "r", "o", "r", " ", "D", "e", "t", "e", "c", "t", "e", "d">>]
    ELSE IF Contains(<<"w", "a", "i", "t", "i", "n", "g">>, message_lower) \/ Contains(<<"i", "d", "l", "e">>, message_lower)
    THEN [priority |-> "low",
          tags |-> <<"clock", "zzz", PROJECT_TAG>>,
          title |-> PROJECT_TITLE \o <<":", " ", "W", "a", "i", "t", "i", "n", "g", " ", "f", "o", "r", " ", "I", "n", "p", "u", "t">>]
    ELSE IF Contains(<<"b", "l", "o", "c", "k", "e", "d">>, message_lower) \/ Contains(<<"h", "o", "o", "k">>, message_lower)
    THEN [priority |-> "default",
          tags |-> <<"stop_sign", "warning", PROJECT_TAG>>,
          title |-> PROJECT_TITLE \o <<":", " ", "H", "o", "o", "k", " ", "A", "l", "e", "r", "t">>]
    ELSE [priority |-> "default",
          tags |-> <<"bell", "info", PROJECT_TAG>>,
          title |-> PROJECT_TITLE \o <<":", " ", "N", "o", "t", "i", "f", "i", "c", "a", "t", "i", "o", "n">>]

analyze_message_content(message, event_name) ==
    LET message_lower == Lower(message) IN
    IF Contains(<<"p", "e", "r", "m", "i", "s", "s", "i", "o", "n">>, message_lower) \/ Contains(<<"a", "p", "p", "r", "o", "v", "a", "l">>, message_lower)
    THEN [priority |-> "high",
          tags |-> <<"warning", "key", PROJECT_TAG>>,
          title |-> PROJECT_TITLE \o <<":", " ", "P", "e", "r", "m", "i", "s", "s", "i", "o", "n", " ", "R", "e", "q", "u", "i", "r", "e", "d">>]
    ELSE IF Contains(<<"e", "r", "r", "o", "r">>, message_lower) \/ Contains(<<"f", "a", "i", "l", "e", "d">>, message_lower)
    THEN [priority |-> "high",
          tags |-> <<"red_circle", "warning", PROJECT_TAG>>,
          title |-> PROJECT_TITLE \o <<":", " ", "E", "r", "r", "o", "r", " ", "D", "e", "t", "e", "c", "t", "e", "d">>]
    ELSE IF Contains(<<"w", "a", "i", "t", "i", "n", "g">>, message_lower) \/ Contains(<<"i", "d", "l", "e">>, message_lower)
    THEN [priority |-> "low",
          tags |-> <<"clock", "zzz", PROJECT_TAG>>,
          title |-> PROJECT_TITLE \o <<":", " ", "W", "a", "i", "t", "i", "n", "g", " ", "f", "o", "r", " ", "I", "n", "p", "u", "t">>]
    ELSE IF Contains(<<"b", "l", "o", "c", "k", "e", "d">>, message_lower) \/ Contains(<<"h", "o", "o", "k">>, message_lower)
    THEN [priority |-> "default",
          tags |-> <<"stop_sign", "warning", PROJECT_TAG>>,
          title |-> PROJECT_TITLE \o <<":", " ", "H", "o", "o", "k", " ", "A", "l", "e", "r", "t">>]
    ELSE IF Contains(<<"c", "o", "m", "p", "l", "e", "t", "e", "d">>, message_lower) \/ Contains(<<"f", "i", "n", "i", "s", "h", "e", "d">>, message_lower)
    THEN [priority |-> "default",
          tags |-> <<"white_check_mark", "gear", PROJECT_TAG>>,
          title |-> PROJECT_TITLE \o <<":", " ", "T", "a", "s", "k", " ", "C", "o", "m", "p", "l", "e", "t", "e", "d">>]
    ELSE [priority |-> "default",
          tags |-> <<"bell", "info", PROJECT_TAG>>,
          title |-> PROJECT_TITLE \o <<":", " ", "N", "o", "t", "i", "f", "i", "c", "a", "t", "i", "o", "n">>]

\* format_notification_message that never appends the git status
format_notification_message_NoStatus(original_message, event_name, info) ==
    LET event_context == IF Truthy(event_name)
                         THEN <<" ", "(">> \o event_name \o <<")">>
                         ELSE <<>>
    IN original_message \o event_context

\* format_notification_message that never appends the event name
format_notification_message_NoContext(original_message, event_name, info) ==
    LET status == IF info["git_status"] # <<"c", "l", "e", "a", "n">>
                  THEN <<" ", Bullet, " ">> \o info["git_status"]
                  ELSE <<>>
    IN original_message \o status

format_notification_message(original_message, event_name, info) ==
    LET event_context == IF Truthy(event_name)
                         THEN <<" ", "(">> \o event_name \o <<")">>
                         ELSE <<>>
        status == IF info["git_status"] # <<"c", "l", "e", "a", "n">>
                  THEN <<" ", Bullet, " ">> \o info["git_status"]
                  ELSE <<>>
    IN original_message \o event_context \o status

\* command_lines reading the command under the key "cmd"
command_lines_WrongKey(hook_data) ==
    LET approval_type == Get(hook_data, "approval_type", <<"u", "n", "k", "n", "o", "w", "n">>)
        command == Get(hook_data, "cmd", <<>>)
    IN IF approval_type = <<"e", "x", "e", "c">> /\ Truthy(command)
       THEN <<<<"C", "o", "m", "m", "a", "n", "d", ":", " ">> \o command>>
       ELSE <<>>

\* lines 107-110: the command line of an "exec" approval
command_lines(hook_data) ==
    LET approval_type == Get(hook_data, "approval_type", <<"u", "n", "k", "n", "o", "w", "n">>)
        command == Get(hook_data, "command", <<>>)
    IN IF approval_type = <<"e", "x", "e", "c">> /\ Truthy(command)
       THEN <<<<"C", "o", "m", "m", "a", "n", "d", ":", " ">> \o command>>
       ELSE <<>>

\* changes_lines that reports the remainder from zero on
changes_lines_OffByOne(hook_data) ==
    LET approval_type == Get(hook_data, "approval_type", <<"u", "n", "k", "n", "o", "w", "n">>)
        changes == Get(hook_data, "changes", <<>>)
        remaining == Len(changes) - PreviewLen
    IN IF approval_type # <<"e", "x", "e", "c">> /\ approval_type = <<"p", "a", "t", "c", "h">> /\ Truthy(changes)
       THEN <<<<"F", "i", "l", "e", "s", ":", " ">> \o Join(<<",", " ">>, Prefix(changes, PreviewLen))>>
            \o (IF remaining >= 0
                THEN <<<<"(", "+">> \o IntToStr(remaining) \o <<" ", "m", "o", "r", "e", ")">>>>
                ELSE <<>>)
       ELSE <<>>

\* lines 111-118: the file preview of a "patch" approval
changes_lines(hook_data) ==
    LET approval_type == Get(hook_data, "approval_type", <<"u", "n", "k", "n", "o", "w", "n">>)
        changes == Get(hook_data, "changes", <<>>)
        remaining == Len(changes) - PreviewLen
    IN IF approval_type # <<"e", "x", "e", "c">> /\ approval_type = <<"p", "a", "t", "c", "h">> /\ Truthy(changes)
       THEN <<<<"F", "i", "l", "e", "s", ":", " ">> \o Join(<<",", " ">>, Prefix(changes, PreviewLen))>>
            \o (IF remaining > 0
                THEN <<<<"(", "+">> \o IntToStr(remaining) \o <<" ", "m", "o", "r", "e", ")">>>>
                ELSE <<>>)
       ELSE <<>>

build_tool_permission_notification(hook_data) ==
    LET tool_name == Get(hook_data, "tool_name", <<"u", "n", "k", "n", "o", "w", "n">>)
        reason == Get(hook_data, "reason", <<>>)
        header == <<<<"C", "l", "a", "u", "d", "e", " ", "n", "e", "e", "d", "s", " ", "p", "e", "r", "m", "i", "s", "s", "i", "o", "n", " ", "t", "o", " ", "u", "s", "e", " ">> \o tool_name>>
        why == IF Truthy(reason) THEN <<<<"R", "e", "a", "s", "o", "n", ":", " ">> \o reason>> ELSE <<>>
        message_lines ==
            header \o command_lines(hook_data) \o changes_lines(hook_data) \o why
    IN [title |-> PROJECT_TITLE \o <<":", " ", "P", "e", "r", "m", "i", "s", "s", "i", "o", "n", " ", "R", "e", "q", "u", "i", "r", "e", "d">>,
        message |-> Join(<<"\n">>, message_lines),
        priority |-> "high",
        tags |-> <<"warning", "key", PROJECT_TAG>>]

\* build_idle_timeout_notification reading the duration under the key
\* "idle_duration"
build_idle_timeout_notification_WrongKey(hook_data) ==
    LET duration == Get(hook_data, "idle_duration", DefaultIdleSeconds) IN
    [title |-> PROJECT_TITLE \o <<":", " ", "S", "e", "s", "s", "i", "o", "n", " ", "I", "d", "l", "e">>,
     message |-> <<"C", "l", "a", "u", "d", "e", " ", "s", "e", "s", "s", "i", "o", "n", " ", "i", "d", "l", "e", " ", "f", "o", "r", " ">> \o IntToStr(duration) \o <<"s">>,
     priority |-> "default",
     tags |-> <<"clock", PROJECT_TAG>>]

build_idle_timeout_notification(hook_data) ==
    LET duration == Get(hook_data, "idle_duration_seconds", DefaultIdleSeconds) IN
    [title |-> PROJECT_TITLE \o <<":", " ", "S", "e", "s", "s", "i", "o", "n", " ", "I", "d", "l", "e">>,
     message |-> <<"C", "l", "a", "u", "d", "e", " ", "s", "e", "s", "s", "i", "o", "n", " ", "i", "d", "l", "e", " ", "f", "o", "r", " ">> \o IntToStr(duration) \o <<"s">>,
     priority |-> "default",
     tags |-> <<"clock", PROJECT_TAG>>]

\* ------------------------------------------------------------------------
\* Inputs: what standard input and the collaborators can hand to main()
\* ------------------------------------------------------------------------
EmptyDict == [k \in {} |-> 0]

\* either no such key, or the key with one of the values
Optional(key, Vals) == {EmptyDict} \cup {key :> v : v \in Vals}

\* words the generic messages are made of: the keywords of every rule, in
\* mixed case, and "Per" + "MISSION", which match only across a word boundary
Words ==
    {<<"P", "e", "r", "m", "i", "s", "s", "i", "o", "n", " ">>, <<"P", "e", "r">>, <<"M", "I", "S", "S", "I", "O", "N">>, <<"A", "P", "P", "R", "O", "V", "A", "L">>, <<"e", "r", "r", "o", "r">>, <<"F", "a", "i", "l", "e", "d">>,
     <<"w", "a", "i", "t", "i", "n", "g">>, <<"I", "D", "L", "E">>, <<"b", "l", "o", "c", "k", "e", "d">>, <<"H", "o", "o", "k">>, <<"c", "o", "m", "p", "l", "e", "t", "e", "d">>, <<"f", "i", "n", "i", "s", "h", "e", "d">>}

RECURSIVE MessagesUpTo(_)
MessagesUpTo(n) ==
    IF n = 0 THEN {<<>>}
    ELSE LET shorter == MessagesUpTo(n - 1)
         IN shorter \cup {m \o w : m \in shorter, w \in Words}

Files == {<<"a", ".", "p", "y">>, <<"b", ".", "p", "y">>}

RECURSIVE ChangesUpTo(_)
ChangesUpTo(n) ==
    IF n = 0 THEN {<<>>}
    ELSE LET shorter == ChangesUpTo(n - 1)
         IN shorter \cup {Append(c, f) : c \in shorter, f \in Files}

\* session metadata an event can carry
MetaFields ==
    {a @@ b : a \in Optional("session_id", {<<"s", "1">>}),
              b \in Optional("cwd", {<<"/", "t", "m", "p">>})}

\* the metadata of the events main() starts on: none, or both fields
InitialMeta == {m \in MetaFields : DOMAIN m \in {{}, {"session_id", "cwd"}}}

\* tool-permission-request events: exec approvals (or no approval type) with
\* every kind of command, patch approvals with every changes sequence
PermissionEvents ==
    {("type" :> TOOL_PERMISSION_REQUEST) @@ a @@ b @@ c @@ d @@ e :
        a \in Optional("approval_type", {<<"e", "x", "e", "c">>}),
        b \in Optional("tool_name", {<<"B", "a", "s", "h">>}),
        c \in Optional("command", {<<>>, <<"l", "s">>, <<"a", "\n", "b">>}),
        d \in Optional("changes", {<<<<"a", ".", "p", "y">>>>}),
        e \in Optional("reason", {<<"w", "h", "y">>})}
    \cup
    {("type" :> TOOL_PERMISSION_REQUEST) @@ ("approval_type" :> <<"p", "a", "t", "c", "h">>)
            @@ c @@ d @@ e :
        c \in Optional("command", {<<"l", "s">>}),
        d \in Optional("changes", ChangesUpTo(MaxChanges)),
        e \in Optional("reason", {<<"w", "h", "y">>})}

IdleSeconds == {0, 45, 60}

IdleEvents ==
    {("type" :> PROMPT_IDLE_TIMEOUT) @@ a @@ b :
        a \in Optional("idle_duration_seconds", IdleSeconds),
        b \in Optional("message", {<<"P", "e", "r", "m", "i", "s", "s", "i", "o", "n", " ", "e", "r", "r", "o", "r">>})}

\* events of the generic path: every combination of type and
\* hook_event_name with the shorter messages
FallbackEvents ==
    {a @@ b @@ c :
        a \in Optional("type", {<<>>, <<"a", "g", "e", "n", "t", "-", "t", "u", "r", "n", "-", "c", "o", "m", "p", "l", "e", "t", "e">>}),
        b \in Optional("hook_event_name", {<<>>, <<"S", "t", "o", "p">>}),
        c \in Optional("message", MessagesUpTo(MaxWords - 1))}

\* events of the generic path that carry a message and nothing else
MessageEvents == {"message" :> m : m \in MessagesUpTo(MaxWords)}

Events ==
    {e @@ m : e \in PermissionEvents \cup IdleEvents \cup FallbackEvents,
              m \in InitialMeta}
    \cup MessageEvents

\* standard input: text that is not JSON, JSON that is not an object, or a
\* JSON object
StdinContents ==
    {[kind |-> k, value |-> EmptyDict] : k \in {"not_json", "json_array"}}
    \cup {[kind |-> "json_object", value |-> e] : e \in Events}

\* what get_project_context can report
GitStatuses == {<<"c", "l", "e", "a", "n">>, <<"2", " ", "m", "o", "d", "i", "f", "i", "e", "d">>, <<"m", "e", "r", "g", "e", " ", "e", "r", "r", "o", "r">>}

\* ------------------------------------------------------------------------
\* State
\* ------------------------------------------------------------------------
VARIABLES
    stdin,              \* content of standard input
    pc,                 \* position of main()
    hook_input,         \* main's locals ...
    hook_type,
    session_id,
    cwd,
    project_info,
    title,
    notification_body,
    priority,
    tags,
    hook_event_name,
    formatted_message,
    success,
    exc,                \* exception being handled, "none" if none
    logged,             \* calls of log() that returned, in order
    sent,               \* calls of send_notification, in order
    played,             \* calls of play_audio, in order
    exit,               \* "running", "ok" (main returned), "raised"
    runs,               \* invocations of the hook so far
    prev_sent           \* send_notification call of the previous invocation

locals == <<hook_input, hook_type, session_id, cwd, project_info, title,
            notification_body, priority, tags, hook_event_name,
            formatted_message, success>>

vars == <<stdin, pc, hook_input, hook_type, session_id, cwd, project_info,
          title, notification_body, priority, tags, hook_event_name,
          formatted_message, success, exc, logged, sent, played, exit, runs,
          prev_sent>>

\* state of a process that has just been started on the input
Fresh ==
    /\ pc = "start"
    /\ hook_input = EmptyDict
    /\ hook_type = <<>>
    /\ session_id = <<>>
    /\ cwd = <<>>
    /\ project_info = EmptyDict
    /\ title = <<>>
    /\ notification_body = <<>>
    /\ priority = "unset"
    /\ tags = <<>>
    /\ hook_event_name = <<>>
    /\ formatted_message = <<>>
    /\ success = FALSE
    /\ exc = "none"
    /\ logged = <<>>
    /\ sent = <<>>
    /\ played = <<>>
    /\ exit = "running"

Init ==
    /\ stdin \in StdinContents
    /\ Fresh
    /\ runs = 1
    /\ prev_sent = <<>>

\* ------------------------------------------------------------------------
\* main(): one action per step of the try block, one for the handler
\* ------------------------------------------------------------------------
\* an exception leaves the try block for the handler
Raise(e) == pc' = "except" /\ exc' = e

\* every log() call of the step returns
LogAll(entries) == logged' = logged \o entries

\* one log() call of the step raises, after the earlier ones returned
LogFails(entries) ==
    /\ \E k \in 0..(Len(entries) - 1) : logged' = logged \o SubSeq(entries, 1, k)
    /\ Raise("LogError")

\* json.loads(sys.stdin.read()) and the three hook_input.get() calls
ReadInput ==
    /\ pc = "start"
    /\ IF ~ENABLE_NOTIFICATIONS
       THEN /\ pc' = "done"
            /\ exit' = "ok"
            /\ UNCHANGED <<hook_input, hook_type, session_id, cwd, exc>>
       ELSE /\ UNCHANGED exit
            /\ CASE stdin.kind = "not_json" ->
                      /\ Raise("JSONDecodeError")
                      /\ UNCHANGED <<hook_input, hook_type, session_id, cwd>>
                 [] stdin.kind = "json_array" ->
                      \* a list has no get()
                      /\ Raise("AttributeError")
                      /\ UNCHANGED <<hook_input, hook_type, session_id, cwd>>
                 [] stdin.kind = "json_object" ->
                      /\ hook_input' = stdin.value
                      /\ hook_type' = Get(stdin.value, "type", <<>>)
                      /\ session_id' = Get(stdin.value, "session_id", <<"u", "n", "k", "n", "o", "w", "n">>)
                      /\ cwd' = Get(stdin.value, "cwd", <<>>)
                      /\ pc' = "log_start"
                      /\ UNCHANGED exc
    /\ UNCHANGED <<stdin, project_info, title, notification_body, priority,
                   tags, hook_event_name, formatted_message, success, logged,
                   sent, played, runs, prev_sent>>

\* the two log() calls that open the cycle
LogProcessing ==
    /\ pc = "log_start"
    /\ \/ LogAll(<<"processing", "event">>) /\ pc' = "get_context" /\ UNCHANGED exc
       \/ LogFails(<<"processing", "event">>)
    /\ UNCHANGED <<stdin, locals, sent, played, exit, runs, prev_sent>>

GetProjectContext ==
    /\ pc = "get_context"
    /\ \/ \E gs \in GitStatuses :
             /\ project_info' = [git_status |-> gs]
             /\ pc' = "build"
             /\ UNCHANGED exc
       \/ Raise("ContextError") /\ UNCHANGED project_info
    /\ UNCHANGED <<stdin, hook_input, hook_type, session_id, cwd, title,
                   notification_body, priority, tags, hook_event_name,
                   formatted_message, success, logged, sent, played, exit,
                   runs, prev_sent>>

BuildToolPermission ==
    /\ pc = "build"
    /\ hook_type = TOOL_PERMISSION_REQUEST
    /\ LET n == build_tool_permission_notification(hook_input)
       IN /\ title' = n.title
          /\ notification_body' = n.message
          /\ priority' = n.priority
          /\ tags' = n.tags
    /\ hook_event_name' = hook_type
    /\ pc' = "format"
    /\ UNCHANGED <<stdin, hook_input, hook_type, session_id, cwd, project_info,
                   formatted_message, success, exc, logged, sent, played,
                   exit, runs, prev_sent>>

BuildIdleTimeout ==
    /\ pc = "build"
    /\ hook_type # TOOL_PERMISSION_REQUEST
    /\ hook_type = PROMPT_IDLE_TIMEOUT
    /\ LET n == build_idle_timeout_notification(hook_input)
       IN /\ title' = n.title
          /\ notification_body' = n.message
          /\ priority' = n.priority
          /\ tags' = n.tags
    /\ hook_event_name' = hook_type
    /\ pc' = "format"
    /\ UNCHANGED <<stdin, hook_input, hook_type, session_id, cwd, project_info,
                   formatted_message, success, exc, logged, sent, played,
                   exit, runs, prev_sent>>

\* BuildGeneric without the "notification" default of the event name
BuildGeneric_NoDefaultName ==
    /\ pc = "build"
    /\ hook_type # TOOL_PERMISSION_REQUEST
    /\ hook_type # PROMPT_IDLE_TIMEOUT
    /\ LET given == Get(hook_input, "message", <<>>)
           name == Get(hook_input, "hook_event_name", hook_type)
           raw_message == IF ~Truthy(given)
                          THEN <<"C", "o", "d", "e", "x", " ", "e", "v", "e", "n", "t", ":", " ">> \o name
                          ELSE given
           a == analyze_message_content(raw_message, name)
       IN /\ hook_event_name' = name
          /\ priority' = a.priority
          /\ title' = a.title
          /\ tags' = a.tags
          /\ notification_body' = raw_message
    /\ pc' = "format"
    /\ UNCHANGED <<stdin, hook_input, hook_type, session_id, cwd, project_info,
                   formatted_message, success, exc, logged, sent, played,
                   exit, runs, prev_sent>>

\* BuildGeneric classifying the message after its enrichment
BuildGeneric_ClassifiesFormatted ==
    /\ pc = "build"
    /\ hook_type # TOOL_PERMISSION_REQUEST
    /\ hook_type # PROMPT_IDLE_TIMEOUT
    /\ LET given == Get(hook_input, "message", <<>>)
           name == Get(hook_input, "hook_event_name",
                       IF Truthy(hook_type) THEN hook_type ELSE <<"n", "o", "t", "i", "f", "i", "c", "a", "t", "i", "o", "n">>)
           raw_message == IF ~Truthy(given)
                          THEN <<"C", "o", "d", "e", "x", " ", "e", "v", "e", "n", "t", ":", " ">> \o name
                          ELSE given
           a == analyze_message_content(
                    format_notification_message(raw_message, name, project_info),
                    name)
       IN /\ hook_event_name' = name
          /\ priority' = a.priority
          /\ title' = a.title
          /\ tags' = a.tags
          /\ notification_body' = raw_message
    /\ pc' = "format"
    /\ UNCHANGED <<stdin, hook_input, hook_type, session_id, cwd, project_info,
                   formatted_message, success, exc, logged, sent, played,
                   exit, runs, prev_sent>>

BuildGeneric ==
    /\ pc = "build"
    /\ hook_type # TOOL_PERMISSION_REQUEST
    /\ hook_type # PROMPT_IDLE_TIMEOUT
    /\ LET given == Get(hook_input, "message", <<>>)
           name == Get(hook_input, "hook_event_name",
                       IF Truthy(hook_type) THEN hook_type ELSE <<"n", "o", "t", "i", "f", "i", "c", "a", "t", "i", "o", "n">>)
           raw_message == IF ~Truthy(given)
                          THEN <<"C", "o", "d", "e", "x", " ", "e", "v", "e", "n", "t", ":", " ">> \o name
                          ELSE given
           a == analyze_message_content(raw_message, name)
       IN /\ hook_event_name' = name
          /\ priority' = a.priority
          /\ title' = a.title
          /\ tags' = a.tags
          /\ notification_body' = raw_message
    /\ pc' = "format"
    /\ UNCHANGED <<stdin, hook_input, hook_type, session_id, cwd, project_info,
                   formatted_message, success, exc, logged, sent, played,
                   exit, runs, prev_sent>>

\* format_notification_message and the log of the message
FormatMessage ==
    /\ pc = "format"
    /\ formatted_message' =
           format_notification_message(notification_body, hook_event_name,
                                       project_info)
    /\ \/ LogAll(<<"message">>) /\ pc' = "send" /\ UNCHANGED exc
       \/ LogFails(<<"message">>)
    /\ UNCHANGED <<stdin, hook_input, hook_type, session_id, cwd, project_info,
                   title, notification_body, priority, tags, hook_event_name,
                   success, sent, played, exit, runs, prev_sent>>

\* the single call of send_notification: it reports success or failure, or
\* it raises
SendNotification ==
    /\ pc = "send"
    /\ sent' = Append(sent, [message |-> formatted_message,
                             title |-> title,
                             priority |-> priority,
                             tags |-> tags,
                             project_info |-> project_info,
                             session_id |-> session_id,
                             hook_name |-> HOOK_NAME])
    /\ \/ \E r \in BOOLEAN : success' = r /\ pc' = "sent" /\ UNCHANGED exc
       \/ Raise("DeliveryError") /\ UNCHANGED success
    /\ UNCHANGED <<stdin, hook_input, hook_type, session_id, cwd, project_info,
                   title, notification_body, priority, tags, hook_event_name,
                   formatted_message, logged, played, exit, runs, prev_sent>>

\* NotifySuccess taken whatever send_notification reported
NotifySuccess_AlwaysPlays ==
    /\ pc = "sent"
    /\ \/ /\ LogAll(<<"sent_ok">>)
          /\ played' = Append(played, NOTIFICATION_AUDIO_FILE)
          /\ \/ pc' = "done" /\ exit' = "ok" /\ UNCHANGED exc
             \/ Raise("AudioError") /\ UNCHANGED exit
       \/ LogFails(<<"sent_ok">>) /\ UNCHANGED <<played, exit>>
    /\ UNCHANGED <<stdin, locals, sent, runs, prev_sent>>

\* "if success": log, then play the configured audio
NotifySuccess ==
    /\ pc = "sent"
    /\ success
    /\ \/ /\ LogAll(<<"sent_ok">>)
          /\ played' = Append(played, NOTIFICATION_AUDIO_FILE)
          /\ \/ pc' = "done" /\ exit' = "ok" /\ UNCHANGED exc
             \/ Raise("AudioError") /\ UNCHANGED exit
       \/ LogFails(<<"sent_ok">>) /\ UNCHANGED <<played, exit>>
    /\ UNCHANGED <<stdin, locals, sent, runs, prev_sent>>

\* "else": log the failed delivery
NotifyFailure ==
    /\ pc = "sent"
    /\ ~success
    /\ \/ LogAll(<<"send_failed">>) /\ pc' = "done" /\ exit' = "ok" /\ UNCHANGED exc
       \/ LogFails(<<"send_failed">>) /\ UNCHANGED exit
    /\ UNCHANGED <<stdin, locals, sent, played, runs, prev_sent>>

\* what the handler logs, one log() call each
HandlerEntries ==
    <<"hook_error", "exception_type", "exception_details", "traceback_header",
      "traceback">>

\* "except Exception as e": five log() calls outside any try block
HandleException ==
    /\ pc = "except"
    /\ \/ LogAll(HandlerEntries) /\ exit' = "ok" /\ UNCHANGED exc
       \/ /\ \E k \in 0..(Len(HandlerEntries) - 1) :
                logged' = logged \o SubSeq(HandlerEntries, 1, k)
          /\ exit' = "raised"
          /\ exc' = "LogError"
    /\ pc' = "done"
    /\ UNCHANGED <<stdin, locals, sent, played, runs, prev_sent>>

Next ==
    \/ ReadInput
    \/ LogProcessing
    \/ GetProjectContext
    \/ BuildToolPermission
    \/ BuildIdleTimeout
    \/ BuildGeneric
    \/ FormatMessage
    \/ SendNotification
    \/ NotifySuccess
    \/ NotifyFailure
    \/ HandleException

Spec == Init /\ [][Next]_vars

\* ------------------------------------------------------------------------
\* The hook invoked again on the same event, in another session, directory
\* or repository state
\* ------------------------------------------------------------------------
\* the event without its session metadata
WithoutMeta(e) == [k \in (DOMAIN e) \ {"session_id", "cwd"} |-> e[k]]

\* events the repeated invocations start from
RerunContents ==
    {[kind |-> k, value |-> EmptyDict] : k \in {"not_json", "json_array"}}
    \cup {[kind |-> "json_object", value |-> e] :
            e \in {"type" :> TOOL_PERMISSION_REQUEST,
                   ("type" :> TOOL_PERMISSION_REQUEST)
                       @@ ("approval_type" :> <<"e", "x", "e", "c">>) @@ ("command" :> <<"l", "s">>)}
                  \cup IdleEvents
                  \cup {ev \in FallbackEvents :
                          "message" \in DOMAIN ev => ev["message"] \in Words}}

InitRerun ==
    /\ stdin \in RerunContents
    /\ Fresh
    /\ runs = 1
    /\ prev_sent = <<>>

\* a new process runs main() on the event of the last one, which may differ
\* in session_id and cwd only
Rerun ==
    /\ pc = "done"
    /\ runs < MaxRuns
    /\ stdin.kind = "json_object"
    /\ \E m \in MetaFields :
          stdin' = [stdin EXCEPT !.value = WithoutMeta(@) @@ m]
    /\ runs' = runs + 1
    /\ prev_sent' = sent
    /\ pc' = "start"
    /\ hook_input' = EmptyDict
    /\ hook_type' = <<>>
    /\ session_id' = <<>>
    /\ cwd' = <<>>
    /\ project_info' = EmptyDict
    /\ title' = <<>>
    /\ notification_body' = <<>>
    /\ priority' = "unset"
    /\ tags' = <<>>
    /\ hook_event_name' = <<>>
    /\ formatted_message' = <<>>
    /\ success' = FALSE
    /\ exc' = "none"
    /\ logged' = <<>>
    /\ sent' = <<>>
    /\ played' = <<>>
    /\ exit' = "running"

NextRerun == Next \/ Rerun

SpecRerun == InitRerun /\ [][NextRerun]_vars

\* ------------------------------------------------------------------------
\* Properties
\* ------------------------------------------------------------------------
Range(s) == {s[i] : i \in DOMAIN s}

StartsWith(s, prefix) ==
    Len(s) >= Len(prefix) /\ SubSeq(s, 1, Len(prefix)) = prefix

EndsWith(s, suffix) ==
    Len(s) >= Len(suffix) /\ SubSeq(s, Len(s) - Len(suffix) + 1, Len(s)) = suffix

\* the lines of a text, split at its newline characters
RECURSIVE SplitLines(_)
SplitLines(s) ==
    IF "\n" \notin Range(s) THEN <<s>>
    ELSE LET i == CHOOSE j \in 1..Len(s) :
                      s[j] = "\n" /\ \A k \in 1..(j - 1) : s[k] # "\n"
         IN <<SubSeq(s, 1, i - 1)>> \o SplitLines(SubSeq(s, i + 1, Len(s)))

Lines(s) == Range(SplitLines(s))

\* the presentation tuple has been computed
Built == priority # "unset"

\* the event took the generic path of main()
GenericPath ==
    hook_type # TOOL_PERMISSION_REQUEST /\ hook_type # PROMPT_IDLE_TIMEOUT

Delivered == sent # <<>>

\* C1: whatever standard input holds and whichever collaborator fails
\* (get_project_context, send_notification, play_audio, log), main() returns
\* normally: no exception propagates past the entry point.
C1_NoExceptionEscapes == exit # "raised"

\* C2: send_notification is invoked at most once per run and never retried;
\* play_audio is invoked at most once, only after that call returned success,
\* and with the fixed audio identifier; a reported delivery failure is
\* logged and plays nothing.
C2_SendOnceAudioAfterSuccess ==
    /\ Len(sent) <= 1
    /\ Len(played) <= 1
    /\ played # <<>> =>
          /\ Len(sent) = 1
          /\ success
          /\ played[1] = <<"t", "o", "a", "s", "t", "y", ".", "m", "p", "3">>
    /\ (Delivered /\ ~success /\ pc = "done" /\ exc = "none") =>
          /\ played = <<>>
          /\ "send_failed" \in Range(logged)

C2_Witness == pc = "done" /\ exit = "ok" /\ Len(sent) = 1 /\ Len(played) = 1

\* the rule table of the generic path, first match first
C3_Has(message, a, b) ==
    LET lowered == Lower(message)
    IN Contains(a, lowered) \/ Contains(b, lowered)

C3_Rule(message) ==
    IF C3_Has(message, <<"p", "e", "r", "m", "i", "s", "s", "i", "o", "n">>, <<"a", "p", "p", "r", "o", "v", "a", "l">>)
    THEN <<"high", <<"P", "e", "r", "m", "i", "s", "s", "i", "o", "n", " ", "R", "e", "q", "u", "i", "r", "e", "d">>, <<"warning", "key">>>>
    ELSE IF C3_Has(message, <<"e", "r", "r", "o", "r">>, <<"f", "a", "i", "l", "e", "d">>)
    THEN <<"high", <<"E", "r", "r", "o", "r", " ", "D", "e", "t", "e", "c", "t", "e", "d">>, <<"red_circle", "warning">>>>
    ELSE IF C3_Has(message, <<"w", "a", "i", "t", "i", "n", "g">>, <<"i", "d", "l", "e">>)
    THEN <<"low", <<"W", "a", "i", "t", "i", "n", "g", " ", "f", "o", "r", " ", "I", "n", "p", "u", "t">>, <<"clock", "zzz">>>>
    ELSE IF C3_Has(message, <<"b", "l", "o", "c", "k", "e", "d">>, <<"h", "o", "o", "k">>)
    THEN <<"default", <<"H", "o", "o", "k", " ", "A", "l", "e", "r", "t">>, <<"stop_sign", "warning">>>>
    ELSE IF C3_Has(message, <<"c", "o", "m", "p", "l", "e", "t", "e", "d">>, <<"f", "i", "n", "i", "s", "h", "e", "d">>)
    THEN <<"default", <<"T", "a", "s", "k", " ", "C", "o", "m", "p", "l", "e", "t", "e", "d">>, <<"white_check_mark", "gear">>>>
    ELSE <<"default", <<"N", "o", "t", "i", "f", "i", "c", "a", "t", "i", "o", "n">>, <<"bell", "info">>>>

\* C3: on the generic path priority, title suffix and tags follow the rule
\* table in its order, searched case-insensitively in the raw message; a
\* message containing "permission" in any case is "high" / "Permission
\* Required" even when it contains keywords of later rules.
C3_GenericClassification ==
    (GenericPath /\ Delivered) =>
        \A rule \in {C3_Rule(notification_body)}, call \in {sent[1]} :
           /\ call.priority = rule[1]
           /\ call.title = PROJECT_TITLE \o <<":", " ">> \o rule[2]
           /\ call.tags = rule[3] \o <<PROJECT_TAG>>
           /\ Contains(<<"p", "e", "r", "m", "i", "s", "s", "i", "o", "n">>, Lower(notification_body)) =>
                 /\ call.priority = "high"
                 /\ EndsWith(call.title, <<"P", "e", "r", "m", "i", "s", "s", "i", "o", "n", " ", "R", "e", "q", "u", "i", "r", "e", "d">>)

C3_Witness ==
    /\ GenericPath
    /\ Delivered
    /\ notification_body # Lower(notification_body)
    /\ Contains(<<"p", "e", "r", "m", "i", "s", "s", "i", "o", "n">>, Lower(notification_body))
    /\ Contains(<<"c", "o", "m", "p", "l", "e", "t", "e", "d">>, Lower(notification_body))
    /\ sent[1].priority = "high"

\* an exec approval that carries a command field
C4_ExecWithCommand ==
    /\ Built
    /\ hook_type = TOOL_PERMISSION_REQUEST
    /\ "approval_type" \in DOMAIN hook_input
    /\ hook_input["approval_type"] = <<"e", "x", "e", "c">>
    /\ "command" \in DOMAIN hook_input

\* C4 as stated: for every exec approval that carries a command field,
\* whatever its value, the message has a line "Command: <command>".
C4_CommandLineAlways ==
    C4_ExecWithCommand =>
        (<<"C", "o", "m", "m", "a", "n", "d", ":", " ">> \o hook_input["command"]) \in Lines(notification_body)

\* C4: for every exec approval whose command is non-empty and has no line
\* break, the message has a line that is exactly "Command: <command>".
C4_CommandLine ==
    (/\ C4_ExecWithCommand
     /\ hook_input["command"] # <<>>
     /\ "\n" \notin Range(hook_input["command"])) =>
        (<<"C", "o", "m", "m", "a", "n", "d", ":", " ">> \o hook_input["command"]) \in Lines(notification_body)

C4_Witness ==
    /\ C4_ExecWithCommand
    /\ Delivered
    /\ hook_input["command"] = <<"l", "s">>
    /\ <<"C", "o", "m", "m", "a", "n", "d", ":", " ", "l", "s">> \in Lines(sent[1].message)

\* the first three entries, comma-joined in their order
C5_Listed(changes) ==
    IF Len(changes) = 1 THEN changes[1]
    ELSE IF Len(changes) = 2 THEN changes[1] \o <<",", " ">> \o changes[2]
    ELSE changes[1] \o <<",", " ">> \o changes[2] \o <<",", " ">> \o changes[3]

C5_PatchWithChanges ==
    /\ Built
    /\ hook_type = TOOL_PERMISSION_REQUEST
    /\ "approval_type" \in DOMAIN hook_input
    /\ hook_input["approval_type"] = <<"p", "a", "t", "c", "h">>
    /\ "changes" \in DOMAIN hook_input

\* C5: a patch approval with N changes lists exactly the first min(N,3)
\* entries, comma-joined in order, and has a line "(+<N-3> more)" if and
\* only if N > 3; nothing beyond the third entry is listed.
C5_PatchPreview ==
    C5_PatchWithChanges =>
        LET changes == hook_input["changes"]
            N == Len(changes)
            L == Lines(notification_body)
            FileLines == {l \in L : StartsWith(l, <<"F", "i", "l", "e", "s", ":", " ">>)}
            MoreLines == {l \in L : StartsWith(l, <<"(", "+">>) /\ EndsWith(l, <<" ", "m", "o", "r", "e", ")">>)}
        IN /\ N = 0 => FileLines = {}
           /\ N > 0 => FileLines = {<<"F", "i", "l", "e", "s", ":", " ">> \o C5_Listed(changes)}
           /\ N <= 3 => MoreLines = {}
           /\ N > 3 => MoreLines = {<<"(", "+">> \o IntToStr(N - 3) \o <<" ", "m", "o", "r", "e", ")">>}

C5_Witness ==
    /\ C5_PatchWithChanges
    /\ Delivered
    /\ Len(hook_input["changes"]) = 4
    /\ hook_input["changes"][1] # hook_input["changes"][2]
    /\ hook_input["changes"][4] # hook_input["changes"][3]
    /\ <<"(", "+", "1", " ", "m", "o", "r", "e", ")">> \in Lines(sent[1].message)

\* C6: for every type of event, the delivered message ends with
\* " <bullet> <git_status>" when git_status is not "clean", and carries no
\* such suffix when it is "clean".
C6_GitStatusSuffix ==
    Delivered =>
        LET git_status == project_info["git_status"]
            message == sent[1].message
        IN IF git_status # <<"c", "l", "e", "a", "n">>
           THEN EndsWith(message, <<" ", Bullet, " ">> \o git_status)
           ELSE /\ Bullet \notin Range(message)
                /\ ~EndsWith(message, git_status)

C6_Witness ==
    /\ Delivered
    /\ hook_type = TOOL_PERMISSION_REQUEST
    /\ project_info["git_status"] = <<"m", "e", "r", "g", "e", " ", "e", "r", "r", "o", "r">>
    /\ EndsWith(sent[1].message, <<" ", Bullet>> \o <<" ", "m", "e", "r", "g", "e", " ", "e", "r", "r", "o", "r">>)

\* C7 as stated: for tool-permission-request and prompt-idle-timeout events
\* the delivered message is the built message, unchanged.
C7_NoEnrichmentOffGenericPath ==
    (Delivered /\ ~GenericPath) => sent[1].message = notification_body

\* C7: enrichment is applied on every path: for tool-permission-request and
\* prompt-idle-timeout events the delivered message is the built message,
\* then " (<type>)", then " <bullet> <git_status>" when git_status is not
\* "clean".
C7_EnrichmentOnEveryPath ==
    (Delivered /\ ~GenericPath) =>
        LET git_status == project_info["git_status"]
            enriched == notification_body \o <<" ", "(">> \o hook_type \o <<")">>
        IN sent[1].message =
               IF git_status = <<"c", "l", "e", "a", "n">> THEN enriched
               ELSE enriched \o <<" ", Bullet, " ">> \o git_status

C7_Witness ==
    /\ Delivered
    /\ hook_type = PROMPT_IDLE_TIMEOUT
    /\ notification_body = <<"C", "l", "a", "u", "d", "e", " ", "s", "e", "s", "s", "i", "o", "n", " ", "i", "d", "l", "e", " ", "f", "o", "r", " ", "4", "5", "s">>
    /\ sent[1].message = <<"C", "l", "a", "u", "d", "e", " ", "s", "e", "s", "s", "i", "o", "n", " ", "i", "d", "l", "e", " ", "f", "o", "r", " ", "4", "5", "s", " ", "(", "p", "r", "o", "m", "p", "t", "-", "i", "d", "l", "e", "-", "t", "i", "m", "e", "o", "u", "t", ")">>

\* the event name of the generic path: hook_event_name if given, else type,
\* else "notification"
C8_EventName ==
    IF "hook_event_name" \in DOMAIN hook_input THEN hook_input["hook_event_name"]
    ELSE IF "type" \in DOMAIN hook_input /\ hook_input["type"] # <<>>
    THEN hook_input["type"]
    ELSE <<"n", "o", "t", "i", "f", "i", "c", "a", "t", "i", "o", "n">>

\* C8: on the generic path the event name follows the fallback chain; with
\* no message field the raw text is "Codex event: <event name>"; and a
\* non-empty event name is appended as " (<event name>)" right after the raw
\* text of the delivered message.
C8_EventNameFallback ==
    (GenericPath /\ Built) =>
        /\ hook_event_name = C8_EventName
        /\ "message" \notin DOMAIN hook_input =>
              notification_body = <<"C", "o", "d", "e", "x", " ", "e", "v", "e", "n", "t", ":", " ">> \o C8_EventName
        /\ "message" \in DOMAIN hook_input /\ hook_input["message"] # <<>> =>
              notification_body = hook_input["message"]
        /\ (Delivered /\ C8_EventName # <<>>) =>
              StartsWith(sent[1].message,
                         notification_body \o <<" ", "(">> \o C8_EventName \o <<")">>)
        /\ (Delivered /\ project_info["git_status"] = <<"c", "l", "e", "a", "n">>
                /\ DOMAIN hook_input \subseteq {"message", "cwd", "session_id"}) =>
              sent[1].message = notification_body \o <<" ", "(", "n", "o", "t", "i", "f", "i", "c", "a", "t", "i", "o", "n", ")">>

C8_Witness ==
    /\ GenericPath
    /\ Delivered
    /\ DOMAIN hook_input = {"message"}
    /\ project_info["git_status"] = <<"c", "l", "e", "a", "n">>
    /\ sent[1].message = <<"c", "o", "m", "p", "l", "e", "t", "e", "d", " ", "(", "n", "o", "t", "i", "f", "i", "c", "a", "t", "i", "o", "n", ")">>
    /\ EndsWith(sent[1].title, <<"T", "a", "s", "k", " ", "C", "o", "m", "p", "l", "e", "t", "e", "d">>)

\* the seconds an idle event reports
C9_Seconds ==
    IF "idle_duration_seconds" \notin DOMAIN hook_input THEN <<"6", "0">>
    ELSE IF hook_input["idle_duration_seconds"] = 0 THEN <<"0">>
    ELSE IF hook_input["idle_duration_seconds"] = 45 THEN <<"4", "5">>
    ELSE <<"6", "0">>

\* C9: every prompt-idle-timeout event, whatever message field it carries,
\* gets the title "<ProjectTitle>: Session Idle", priority "default", tags
\* [clock, project tag] and a message reporting idle_duration_seconds, which
\* is 60 when the field is absent.
C9_IdleTimeout ==
    (hook_type = PROMPT_IDLE_TIMEOUT /\ Built) =>
        /\ title = PROJECT_TITLE \o <<":", " ", "S", "e", "s", "s", "i", "o", "n", " ", "I", "d", "l", "e">>
        /\ priority = "default"
        /\ tags = <<"clock", PROJECT_TAG>>
        /\ notification_body = <<"C", "l", "a", "u", "d", "e", " ", "s", "e", "s", "s", "i", "o", "n", " ", "i", "d", "l", "e", " ", "f", "o", "r", " ">> \o C9_Seconds \o <<"s">>
        /\ Delivered =>
              /\ sent[1].title = title
              /\ sent[1].priority = "default"
              /\ sent[1].tags = tags
              /\ StartsWith(sent[1].message, notification_body)

C9_Witness ==
    /\ hook_type = PROMPT_IDLE_TIMEOUT
    /\ Delivered
    /\ "message" \in DOMAIN hook_input
    /\ "idle_duration_seconds" \notin DOMAIN hook_input
    /\ notification_body = <<"C", "l", "a", "u", "d", "e", " ", "s", "e", "s", "s", "i", "o", "n", " ", "i", "d", "l", "e", " ", "f", "o", "r", " ", "6", "0", "s">>

\* C10: two runs on events that differ only in cwd, session_id or in the
\* git_status reported for them pass the same title, priority and tags to
\* send_notification.
C10_ContextIndependent ==
    (Delivered /\ prev_sent # <<>>) =>
        /\ sent[1].title = prev_sent[1].title
        /\ sent[1].priority = prev_sent[1].priority
        /\ sent[1].tags = prev_sent[1].tags

C10_Witness ==
    /\ Delivered
    /\ prev_sent # <<>>
    /\ GenericPath
    /\ sent[1].session_id # prev_sent[1].session_id
    /\ prev_sent[1].project_info["git_status"] = <<"c", "l", "e", "a", "n">>
    /\ sent[1].project_info["git_status"] = <<"m", "e", "r", "g", "e", " ", "e", "r", "r", "o", "r">>
    /\ sent[1].message # prev_sent[1].message
    /\ sent[1].priority = "default"

=============================================================================
